---- MODULE Spec2Model ----
(***************************************************************************)
(* The Titanic dashboard of src/dashboard.py: a Streamlit script that is   *)
(* run from top to bottom on the first visit and again after every widget  *)
(* interaction.  load_data reads train.csv, imputes and derives columns;   *)
(* the rest of the script filters the table by the sidebar widgets and     *)
(* computes the metrics, the grouped aggregates and the table rows.        *)
(*                                                                         *)
(* A DataFrame is modelled by its columns: a function from column names to *)
(* equally long sequences of cells.  A cell                                *)
(* is NaN or Val(v), in every column.  Ages and fares                     *)
(* are counted in quarters of a unit, so that 12.5 years and the           *)
(* median of two raw values (raw values are whole halves) are exact.       *)
(* Strings that the code takes apart (Name, Title) are sequences of        *)
(* one-character strings.                                                  *)
(***************************************************************************)
EXTENDS Integers, Sequences, FiniteSets, TLC

VARIABLES
    source,          \* the file train.csv as it is on disk
    cache,           \* the memo of st.cache_data around load_data
    exc,             \* the exception that ended the last script run, "" if none
    failed_at,       \* the statement group that raised it, "" if none
    runs,            \* whether the script has run at all (0 or 1)
    df,              \* line 33
    extracted,       \* train["Title"] after line 19, before the replace
    classes, sexes, age_range, embark_ports, show_survivors,   \* widget values
    filtered_df,     \* lines 71-77
    metrics,         \* lines 83-95: what st.metric is given
    survival_data,   \* lines 106-107
    title_survival,  \* line 180
    table            \* lines 202-210: the rows handed to st.dataframe

vars == <<source, cache, exc, failed_at, runs, df, extracted, classes, sexes,
          age_range, embark_ports, show_survivors, filtered_df, metrics,
          survival_data, title_survival, table>>

----------------------------------------------------------------------------
(* Cells and series *)

\* numpy.nan, the missing cell
NaN == <<>>
\* a present cell
Val(v) == <<v>>

\* a whole number of years in quarter units
Years(y) == 4 * y

Min(a, b) == IF a <= b THEN a ELSE b

\* the frame with no column (nothing was loaded)
NoFrame == [c \in {} |-> <<>>]

\* len(frame)
FrameLen(frame) ==
    IF DOMAIN frame = {} THEN 0
    ELSE Len(frame[CHOOSE c \in DOMAIN frame : TRUE])

\* frame[c] = s
SetCol(frame, c, s) ==
    [k \in (DOMAIN frame) \cup {c} |-> IF k = c THEN s ELSE frame[k]]

\* row i of a frame, as a record over its columns
Row(frame, i) == [c \in DOMAIN frame |-> frame[c][i]]

\* the positions lo..hi of a mask that hold True, in order (by halves)
RECURSIVE TrueIn(_, _, _)
TrueIn(mask, lo, hi) ==
    IF lo > hi THEN <<>>
    ELSE IF lo = hi THEN (IF mask[lo] THEN <<lo>> ELSE <<>>)
    ELSE LET mid == (lo + hi) \div 2
         IN  TrueIn(mask, lo, mid) \o TrueIn(mask, mid + 1, hi)

\* the positions of a mask that hold True, in order
Positions(mask) == TrueIn(mask, 1, Len(mask))

\* Series.dropna(), unwrapped
Present(s) ==
    LET idx == Positions([i \in DOMAIN s |-> s[i] # NaN])
    IN  [k \in 1..Len(idx) |-> s[idx[k]][1]]

\* Series.fillna(v): v may itself be NaN (the median of no value)
fillna(s, v) == [i \in DOMAIN s |-> IF s[i] = NaN THEN v ELSE s[i]]

\* Series.median(): the middle of the sorted present values, NaN if none
median(s) ==
    LET v == SortSeq(Present(s), LAMBDA a, b : a < b)
        n == Len(v)
    IN  IF n = 0 THEN NaN
        ELSE IF n % 2 = 1 THEN Val(v[(n + 1) \div 2])
        ELSE Val((v[n \div 2] + v[n \div 2 + 1]) \div 2)

\* the sort order of the port codes
PortRank(p) == CASE p = "C" -> 1 [] p = "Q" -> 2 [] p = "S" -> 3

\* Series.mode(): the most frequent present values, sorted
mode(s) ==
    LET p     == Present(s)
        vals  == {p[i] : i \in DOMAIN p}
        count(v) == Cardinality({i \in DOMAIN p : p[i] = v})
        best  == {v \in vals : \A w \in vals : count(w) <= count(v)}
    IN  IF best = {} THEN <<>>
        ELSE CHOOSE f \in [1..Cardinality(best) -> best] :
                /\ \A i, j \in DOMAIN f : i < j => PortRank(f[i]) < PortRank(f[j])

----------------------------------------------------------------------------
(* Title extraction, line 19: Series.str.extract(r',\s*([^.]+)\.')[0] *)

IsSpace(ch) == ch \in {" ", "\t"}

\* the least member of a non-empty set of positions
First(S) == CHOOSE i \in S : \A j \in S : i <= j

\* a pattern without \s*: no whitespace is skipped
NoSpaceRun(s, i) == 0

\* how many whitespace characters stand at position i and on
SpaceRun(s, i) ==
    LET stops == {j \in i..Len(s) : ~IsSpace(s[j])}
    IN  (IF stops = {} THEN Len(s) + 1 ELSE First(stops)) - i

\* how many characters other than a period stand at position i and on
NonDotRun(s, i) ==
    LET stops == {j \in i..Len(s) : s[j] = "."}
    IN  (IF stops = {} THEN Len(s) + 1 ELSE First(stops)) - i

\* The regex engine's attempt at start position i: a comma, then \s* and
\* [^.]+ both greedy, giving back one character at a time until a period
\* follows.  The result is NaN (no match here) or Val(captured group).
MatchAt(s, i) ==
    IF s[i] # "," THEN NaN
    ELSE LET ws   == SpaceRun(s, i + 1)
             tries == {km \in (0..ws) \X (1..Len(s)) :
                          /\ km[2] <= NonDotRun(s, i + 1 + km[1])
                          /\ i + 1 + km[1] + km[2] <= Len(s)
                          /\ s[i + 1 + km[1] + km[2]] = "."}
         IN  IF tries = {} THEN NaN
             ELSE LET k == CHOOSE k \in {km[1] : km \in tries} :
                                \A km \in tries : km[1] <= k
                      m == CHOOSE m \in {km[2] : km \in {t \in tries : t[1] = k}} :
                                \A km \in tries : km[1] = k => km[2] <= m
                  IN  Val(SubSeq(s, i + 1 + k, i + k + m))

\* re.search: the match at the leftmost start position that has one
str_extract(s) ==
    LET starts == {i \in 1..Len(s) : MatchAt(s, i) # NaN}
    IN  IF starts = {} THEN NaN
        ELSE MatchAt(s, First(starts))

\* lines 20-25
title_map ==
    << << <<"M","l","l","e">>, <<"M","i","s","s">> >>,
       << <<"M","s">>, <<"M","i","s","s">> >>,
       << <<"M","m","e">>, <<"M","r","s">> >>,
       << <<"L","a","d","y">>, <<"M","r","s">> >>,
       << <<"t","h","e"," ","C","o","u","n","t","e","s","s">>, <<"M","r","s">> >>,
       << <<"D","o","n","a">>, <<"M","r","s">> >>,
       << <<"S","i","r">>, <<"M","r">> >>,
       << <<"J","o","n","k","h","e","e","r">>, <<"M","r">> >>,
       << <<"D","o","n">>, <<"M","r">> >>,
       << <<"C","o","l">>, <<"O","f","f","i","c","e","r">> >>,
       << <<"M","a","j","o","r">>, <<"O","f","f","i","c","e","r">> >>,
       << <<"C","a","p","t">>, <<"O","f","f","i","c","e","r">> >>,
       << <<"R","e","v">>, <<"O","f","f","i","c","e","r">> >>,
       << <<"D","r">>, <<"O","f","f","i","c","e","r">> >> >>

\* Series.replace(title_map) on one cell: a whole-value lookup, NaN kept
replace(t) ==
    IF t = NaN THEN NaN
    ELSE LET hits == {k \in DOMAIN title_map : title_map[k][1] = t[1]}
         IN  IF hits = {} THEN t
             ELSE Val(title_map[CHOOSE k \in hits : TRUE][2])

----------------------------------------------------------------------------
(* Age groups, lines 28-29: pd.cut(Age, bins, labels), right=True *)

bins == <<Years(0), Years(12), Years(18), Years(35), Years(50), Years(80)>>
labels == <<"Child", "Teen", "Adult", "Middle", "Senior">>

\* numpy searchsorted(side='right'): the variant pd.cut uses with right=False
searchsorted_right(b, x) == Cardinality({i \in DOMAIN b : b[i] <= x})

\* numpy searchsorted(side='left'): how many edges lie strictly below x
searchsorted(b, x) == Cardinality({i \in DOMAIN b : b[i] < x})

\* pd.cut on one cell: edge index 0 or len(bins) is out of every bin
cut(x) ==
    IF x = NaN THEN NaN
    ELSE LET ids == searchsorted(bins, x[1])
         IN  IF ids = 0 \/ ids = Len(bins) THEN NaN ELSE Val(labels[ids])

----------------------------------------------------------------------------
(* load_data, lines 11-31.  The result is [exc, value]: the exception that  *)
(* ended it ("" if none) and the frame returned.                           *)

Raise(name) == [exc |-> name, value |-> NoFrame, extracted |-> <<>>]

\* lines 19-31 on the frame line 17 leaves
DeriveColumns(train) ==
    IF "Name" \notin DOMAIN train THEN Raise("KeyError")
    ELSE [exc       |-> "",
          value     |-> SetCol(
                          SetCol(train, "Title",
                            [i \in DOMAIN train["Name"] |->
                               IF train["Name"][i] = NaN THEN NaN
                               ELSE replace(str_extract(train["Name"][i][1]))]),
                          "AgeGroup", [i \in DOMAIN train["Age"] |-> cut(train["Age"][i])]),
          extracted |-> [i \in DOMAIN train["Name"] |->
                           IF train["Name"][i] = NaN THEN NaN
                           ELSE str_extract(train["Name"][i][1])]]

\* line 17 and on, on the frame line 16 leaves
FillFare(train) ==
    IF "Fare" \notin DOMAIN train THEN Raise("KeyError")
    ELSE DeriveColumns(SetCol(train, "Fare", fillna(train["Fare"], median(train["Fare"]))))

\* line 16 and on, on the frame line 15 leaves
FillAge(train) ==
    IF "Age" \notin DOMAIN train THEN Raise("KeyError")
    ELSE FillFare(SetCol(train, "Age", fillna(train["Age"], median(train["Age"]))))

\* line 15 and on: mode()[0] of a column without a value raises KeyError
FillEmbarked(train) ==
    IF "Embarked" \notin DOMAIN train THEN Raise("KeyError")
    ELSE IF mode(train["Embarked"]) = <<>> THEN Raise("KeyError")
    ELSE FillAge(SetCol(train, "Embarked",
                    fillna(train["Embarked"], Val(mode(train["Embarked"])[1]))))

load_data(src) ==
    IF src.kind = "missing" THEN Raise("FileNotFoundError")
    ELSE IF src.kind = "unreadable" THEN Raise("PermissionError")
    ELSE FillEmbarked(src.frame)

----------------------------------------------------------------------------
(* Numbers the script computes and prints *)

RECURSIVE Gcd(_, _)
Gcd(a, b) == IF b = 0 THEN a ELSE Gcd(b, a % b)

\* the fraction n/d (n >= 0, d > 0) in lowest terms
Rat(n, d) == LET g == Gcd(n, d) IN <<n \div g, d \div g>>

\* s[lo] + ... + s[hi] (by halves)
RECURSIVE SumIn(_, _, _)
SumIn(s, lo, hi) ==
    IF lo > hi THEN 0
    ELSE IF lo = hi THEN s[lo]
    ELSE LET mid == (lo + hi) \div 2
         IN  SumIn(s, lo, mid) + SumIn(s, mid + 1, hi)

SumSeq(s) == SumIn(s, 1, Len(s))

\* a mean that is 0 when there is no value
mean_or_zero(s, unit) ==
    LET v == Present(s)
    IN  IF v = <<>> THEN Rat(0, 1) ELSE Rat(SumSeq(v), unit * Len(v))

\* Series.mean(), skipping NaN, of cells counted in 1/unit: NaN if no value
mean(s, unit) ==
    LET v == Present(s)
    IN  IF v = <<>> THEN NaN ELSE Rat(SumSeq(v), unit * Len(v))

\* x * k for a float x
times(x, k) == IF x = NaN THEN NaN ELSE Rat(x[1] * k, x[2])

Pow10(d) == IF d = 1 THEN 10 ELSE 100

RECURSIVE Digits(_)
Digits(n) ==
    LET ch == <<"0", "1", "2", "3", "4", "5", "6", "7", "8", "9">>[(n % 10) + 1]
    IN  IF n < 10 THEN <<ch>> ELSE Append(Digits(n \div 10), ch)

\* f"{x:.<d>f}" for d in {1, 2}: "nan" for NaN, else x rounded half-even to d
\* decimals (the rounding is done on the exact fraction)
format_f(x, d) ==
    IF x = NaN THEN <<"n", "a", "n">>
    ELSE LET n == x[1] * Pow10(d)
             q == n \div x[2]
             r == n % x[2]
             scaled == IF 2 * r < x[2] THEN q
                       ELSE IF 2 * r > x[2] THEN q + 1
                       ELSE IF q % 2 = 0 THEN q ELSE q + 1
             frac == Digits(scaled % Pow10(d))
         IN  Digits(scaled \div Pow10(d)) \o <<".">>
               \o (IF Len(frac) < d THEN <<"0">> ELSE <<>>) \o frac

----------------------------------------------------------------------------
(* The widgets, lines 44-68 and 201 *)

class_options == {1, 2, 3}
sex_options == {"male", "female"}
port_options == {"C", "Q", "S"}
slider_min == 0
slider_max == 80
default_age_range == <<slider_min, slider_max>>

\* the widget calls of a run that return their default whatever the user chose
widget_defaults(w) ==
    [w EXCEPT !.classes = class_options, !.age_range = default_age_range]

\* lines 44-68 and 201: on a run each widget call returns the value the
\* session holds for it
widget_values(w) == w

----------------------------------------------------------------------------
(* One run of the script below line 33, as steps over its namespace env.   *)
(* A step that raises sets env.exc, and the steps after it are skipped.    *)

Fail(env, name, where) == [env EXCEPT !.exc = name, !.failed_at = where]

Has(frame, cols) == cols \subseteq DOMAIN frame

\* Series.isin(values): NaN is in nothing
isin(s, values) == [i \in DOMAIN s |-> s[i] # NaN /\ s[i][1] \in values]
\* Series >= v, Series <= v, Series == v: False on NaN
ge(s, v) == [i \in DOMAIN s |-> s[i] # NaN /\ s[i][1] >= v]
\* Series < v
lt(s, v) == [i \in DOMAIN s |-> s[i] # NaN /\ s[i][1] < v]
le(s, v) == [i \in DOMAIN s |-> s[i] # NaN /\ s[i][1] <= v]
eq(s, v) == [i \in DOMAIN s |-> s[i] # NaN /\ s[i][1] = v]
\* mask & mask
and(a, b) == [i \in DOMAIN a |-> a[i] /\ b[i]]

\* frame[mask] with every row's mask moved down by one row
BoolIndexShifted(frame, mask) ==
    LET idx == Positions([i \in DOMAIN mask |-> i > 1 /\ mask[i - 1]])
    IN  [c \in DOMAIN frame |-> [k \in 1..Len(idx) |-> frame[c][idx[k]]]]

\* frame[mask]: the rows whose mask is True, in order
BoolIndex(frame, mask) ==
    LET idx == Positions(mask)
    IN  [c \in DOMAIN frame |-> [k \in 1..Len(idx) |-> frame[c][idx[k]]]]

\* lines 71-77 on a frame that has the four columns
applyFilters(frame, w) ==
    BoolIndex(frame,
        and(and(and(and(isin(frame["Pclass"], w.classes),
                        isin(frame["Sex"], w.sexes)),
                    ge(frame["Age"], Years(w.age_range[1]))),
                le(frame["Age"], Years(w.age_range[2]))),
            isin(frame["Embarked"], w.embark_ports)))

\* lines 71-77
FilterStep(env, w) ==
    IF ~Has(env.df, {"Pclass", "Sex", "Age", "Embarked"})
    THEN Fail(env, "KeyError", "filters")
    ELSE [env EXCEPT !.filtered_df = applyFilters(env.df, w)]

\* lines 83-95: the four st.metric values
MetricsStep(env) ==
    LET f == env.filtered_df IN
    IF ~Has(f, {"Survived"}) THEN Fail(env, "KeyError", "metrics")
    ELSE [env EXCEPT !.metrics =
            [shown            |-> TRUE,
             survival_rate    |-> format_f(times(mean(f["Survived"], 1), 100), 1) \o <<"%">>,
             avg_age          |-> format_f(mean(f["Age"], 4), 1),
             avg_fare         |-> <<"$">> \o format_f(mean(f["Fare"], 4), 2),
             total_passengers |-> FrameLen(f)]]

\* the key tuples of the rows whose key cells are all present (dropna=True)
GroupKeys(frame, by) ==
    {[c \in by |-> frame[c][i]] :
        i \in {j \in 1..FrameLen(frame) : \A c \in by : frame[c][j] # NaN}}

\* the rows of a group, as a mask
InGroup(frame, by, key) ==
    [i \in 1..FrameLen(frame) |-> \A c \in by : frame[c][i] = key[c]]

\* lines 106-107 with the scaling written into the base table as well
SurvivalStepInPlace(env) ==
    LET f  == env.filtered_df
        by == {"Sex", "Pclass"}
    IN  [env EXCEPT
          !.df = SetCol(env.df, "Survived",
                   [i \in DOMAIN env.df["Survived"] |->
                      IF env.df["Survived"][i] = NaN THEN NaN
                      ELSE Val(env.df["Survived"][i][1] * 100)]),
          !.survival_data =
            {[Sex      |-> key["Sex"],
              Pclass   |-> key["Pclass"],
              Survived |-> times(mean(BoolIndex(f, InGroup(f, by, key))["Survived"], 1), 100)] :
                key \in GroupKeys(f, by)}]

\* lines 106-107: one row per (Sex, Pclass) that occurs, with 100 * mean
SurvivalStep(env) ==
    LET f  == env.filtered_df
        by == {"Sex", "Pclass"}
    IN  [env EXCEPT !.survival_data =
            {[Sex      |-> key["Sex"],
              Pclass   |-> key["Pclass"],
              Survived |-> times(mean(BoolIndex(f, InGroup(f, by, key))["Survived"], 1), 100)] :
                key \in GroupKeys(f, by)}]

\* line 180: one row per (Title, Survived) that occurs, with its size
TitleStep(env) ==
    LET f  == env.filtered_df
        by == {"Title", "Survived"}
    IN  [env EXCEPT !.title_survival =
            {[Title    |-> key["Title"],
              Survived |-> key["Survived"],
              Count    |-> FrameLen(BoolIndex(f, InGroup(f, by, key)))] :
                key \in GroupKeys(f, by)}]

display_cols == {"Name", "Sex", "Age", "Pclass", "Fare", "Embarked", "Survived", "Title"}
head_rows == 50

\* DataFrame.head(n)
head(frame, n) ==
    [c \in DOMAIN frame |-> SubSeq(frame[c], 1, Min(n, Len(frame[c])))]

\* frame[cols]
Project(frame, cols) == [c \in cols |-> frame[c]]

\* lines 201-213 with head(50) taken before the survivors are picked
TableStepHeadFirst(env, w) ==
    LET top == head(Project(env.filtered_df, display_cols), head_rows)
    IN  [env EXCEPT !.table = IF w.show_survivors
                              THEN BoolIndex(top, eq(top["Survived"], 1))
                              ELSE top]

\* lines 201-213
TableStep(env, w) ==
    LET table_df == IF w.show_survivors
                    THEN BoolIndex(env.filtered_df, eq(env.filtered_df["Survived"], 1))
                    ELSE env.filtered_df
    IN  [env EXCEPT !.table = head(Project(table_df, display_cols), head_rows)]

NoMetrics ==
    [shown |-> FALSE, survival_rate |-> <<>>, avg_age |-> <<>>, avg_fare |-> <<>>,
     total_passengers |-> 0]

\* the namespace when line 33 has run
Namespace(frame) ==
    [df |-> frame, filtered_df |-> NoFrame, metrics |-> NoMetrics,
     survival_data |-> {}, title_survival |-> {}, table |-> NoFrame,
     exc |-> "", failed_at |-> ""]

\* the widget values of a run
Widgets ==
    [classes |-> classes, sexes |-> sexes, age_range |-> age_range,
     embark_ports |-> embark_ports, show_survivors |-> show_survivors]

\* line 201 and on, unless an earlier statement raised
ThenTable(env, w) == IF env.exc # "" THEN env ELSE TableStep(env, w)
\* line 180 and on
ThenTitle(env, w) == IF env.exc # "" THEN env ELSE ThenTable(TitleStep(env), w)
\* line 106 and on
ThenSurvival(env, w) == IF env.exc # "" THEN env ELSE ThenTitle(SurvivalStep(env), w)
\* line 83 and on
ThenMetrics(env, w) == IF env.exc # "" THEN env ELSE ThenSurvival(MetricsStep(env), w)

\* lines 70-213 with widget values w
Pass(frame, w) == ThenMetrics(FilterStep(Namespace(frame), w), w)

\* load_data() under st.cache_data: the body runs when nothing is cached, a
\* result is cached only when the body returned, and the caller gets a copy
cached_load(src, c) ==
    IF c.hit THEN [exc |-> "", value |-> c.value, extracted |-> <<>>]
    ELSE load_data(src)

----------------------------------------------------------------------------
(* The file train.csv *)

RawCols == {"Survived", "Pclass", "Name", "Sex", "Age", "Fare", "Embarked"}

Missing == [kind |-> "missing", frame |-> NoFrame]
Unreadable == [kind |-> "unreadable", frame |-> NoFrame]
Csv(frame) == [kind |-> "csv", frame |-> frame]

\* the frame read_csv makes of a sequence of rows
FrameOf(rows) == [c \in RawCols |-> [i \in DOMAIN rows |-> rows[i][c]]]

\* the frame of a file that has no column c
Without(frame, c) == [k \in (DOMAIN frame) \ {c} |-> frame[k]]

\* every sequence over S of length at most n
SeqsUpTo(S, n) == UNION {[1..k -> S] : k \in 0..n}

PassengerRow(sv, pc, nm, sx, ag, fr, em) ==
    [Survived |-> sv, Pclass |-> pc, Name |-> nm, Sex |-> sx, Age |-> ag,
     Fare |-> fr, Embarked |-> em]

----------------------------------------------------------------------------
(* The files and widget values the model is run on *)

MaxRows == 2
MaxFilterRows == 2
MaxNameLen == 5
MaxAgeQ == 330
BigSurvivors == 60
BigOthers == 5

Mr(n) == <<"R", ",", " ", "M", "r", ".", " ">> \o Digits(n)

\* a file of BigSurvivors survivors and BigOthers others, the others at the
\* even places from the top
BigRows ==
    [i \in 1..(BigSurvivors + BigOthers) |->
        PassengerRow(Val(IF i % 2 = 0 /\ i <= 2 * BigOthers THEN 0 ELSE 1),
                     Val((i % 3) + 1), Val(Mr(i)),
                     Val(IF i % 4 = 0 THEN "male" ELSE "female"),
                     IF i % 7 = 0 THEN NaN ELSE Val(Years(i)),
                     Val(2 * i),
                     Val(IF i % 5 = 0 THEN "C" ELSE "S"))]

\* a short file with gaps
SmallRows ==
    << PassengerRow(Val(1), Val(1), Val(<<"A", ",", " ", "M", "l", "l", "e", ".", " ", "B">>),
                    Val("female"), Val(Years(30)), Val(284), Val("C")),
       PassengerRow(Val(0), Val(3), Val(<<"C", ",", "M", "r", ".">>),
                    Val("male"), NaN, Val(30), NaN),
       PassengerRow(Val(0), Val(2), Val(<<"D">>),
                    Val("male"), Val(Years(80)), NaN, Val("Q")),
       PassengerRow(Val(1), Val(3), Val(<<"E", ",", " ", "D", "r", " ", ".">>),
                    Val("female"), Val(0), Val(0), Val("C")) >>

\* the files a session is opened on
SessionSources ==
    {Missing, Csv(FrameOf(SmallRows)), Csv(Without(FrameOf(SmallRows), "Survived"))}

\* files that cannot be read or lack a column
BrokenSources ==
    {Missing, Unreadable} \cup {Csv(Without(FrameOf(SmallRows), c)) : c \in RawCols}

FilterRows ==
    { PassengerRow(Val(1), Val(1), Val(<<"A", ",", " ", "M", "r", ".">>),
                   Val("male"), Val(Years(30)), Val(100), Val("S")),
      PassengerRow(Val(0), Val(3), Val(<<"B", ",", " ", "M", "s", ".">>),
                   Val("female"), NaN, NaN, Val("C")) }

ImputeRows ==
    { PassengerRow(Val(1), Val(1), Val(<<"A", ",", " ", "M", "r", ".">>), Val("male"), ag, fr, em) :
        ag \in {NaN, Val(Years(12) + 2), Val(Years(80))},
        fr \in {NaN, Val(40)},
        em \in {NaN, Val("C"), Val("S")} }

NameChars == {",", ".", " ", "M"}

NameRows ==
    { PassengerRow(Val(0), Val(2), Val(nm), Val("male"), Val(Years(30)), Val(40), Val("S")) :
        nm \in SeqsUpTo(NameChars, MaxNameLen) }

AgeRows ==
    { PassengerRow(Val(0), Val(2), Val(<<"A", ",", " ", "M", "r", ".">>), Val("male"),
                   Val(q), Val(40), Val("S")) : q \in 0..MaxAgeQ }

\* the stops the slider handles are moved to
SliderStops == {slider_min, 30, slider_max}
AgeRanges == {r \in SliderStops \X SliderStops : r[1] <= r[2]}

----------------------------------------------------------------------------
(* The state machine *)

NotRun ==
    /\ cache = [hit |-> FALSE, value |-> NoFrame]
    /\ exc = "" /\ failed_at = "" /\ runs = 0
    /\ df = NoFrame /\ extracted = <<>>
    /\ filtered_df = NoFrame /\ metrics = NoMetrics
    /\ survival_data = {} /\ title_survival = {} /\ table = NoFrame

DefaultWidgets ==
    /\ classes = class_options
    /\ sexes = sex_options
    /\ age_range = default_age_range
    /\ embark_ports = port_options
    /\ show_survivors = FALSE

\* a first visit: nothing has run, every widget is at its default
Init ==
    /\ source \in SessionSources
    /\ DefaultWidgets
    /\ NotRun

\* the rest of a run whose load_data() call returned l
Finish(l, ns) ==
    /\ exc' = ns.exc /\ failed_at' = ns.failed_at
    /\ cache' = [hit |-> TRUE, value |-> l.value]
    /\ df' = ns.df
    /\ extracted' = IF cache.hit THEN extracted ELSE l.extracted
    /\ filtered_df' = ns.filtered_df /\ metrics' = ns.metrics
    /\ survival_data' = ns.survival_data
    /\ title_survival' = ns.title_survival
    /\ table' = ns.table

\* one run of the script with widget values w
RunWith(w) ==
    /\ classes' = w.classes /\ sexes' = w.sexes /\ age_range' = w.age_range
    /\ embark_ports' = w.embark_ports /\ show_survivors' = w.show_survivors
    /\ runs' = 1
    /\ UNCHANGED source
    /\ \E l \in {cached_load(source, cache)} :
         IF l.exc # ""
         THEN /\ exc' = l.exc /\ failed_at' = "load_data"
              /\ cache' = cache
              /\ df' = NoFrame /\ extracted' = <<>>
              /\ filtered_df' = NoFrame /\ metrics' = NoMetrics
              /\ survival_data' = {} /\ title_survival' = {} /\ table' = NoFrame
         ELSE \E ns \in {Pass(l.value, widget_values(w))} : Finish(l, ns)

\* the sidebar widgets are on the page once line 68 has run
SidebarShown == runs = 1 /\ failed_at # "load_data"
\* the checkbox is on the page once line 201 has run
CheckboxShown == runs = 1 /\ exc = ""

Flip(S, x) == IF x \in S THEN S \ {x} ELSE S \cup {x}

\* the first visit, or the browser asking for the page again
Rerun == RunWith(Widgets)

SetClasses ==
    \E c \in class_options :
        SidebarShown /\ RunWith([Widgets EXCEPT !.classes = Flip(classes, c)])

SetSexes ==
    \E s \in sex_options :
        SidebarShown /\ RunWith([Widgets EXCEPT !.sexes = Flip(sexes, s)])

SetAgeRange ==
    \E r \in AgeRanges :
        /\ SidebarShown
        /\ r[1] = age_range[1] \/ r[2] = age_range[2]
        /\ RunWith([Widgets EXCEPT !.age_range = r])

SetPorts ==
    \E p \in port_options :
        SidebarShown /\ RunWith([Widgets EXCEPT !.embark_ports = Flip(embark_ports, p)])

ToggleSurvivors ==
    CheckboxShown /\ RunWith([Widgets EXCEPT !.show_survivors = ~show_survivors])

Next == Rerun \/ SetClasses \/ SetSexes \/ SetAgeRange \/ SetPorts \/ ToggleSurvivors

Spec == Init /\ [][Next]_vars

\* one run of the script on any file and any widget values
InitRun ==
    /\ NotRun
    /\ \/ /\ source \in {Csv(FrameOf(rows)) : rows \in SeqsUpTo(FilterRows, MaxFilterRows)}
          /\ classes \in SUBSET class_options
          /\ sexes \in SUBSET sex_options
          /\ age_range \in AgeRanges
          /\ embark_ports \in SUBSET port_options
          /\ show_survivors = FALSE
       \/ /\ source \in {Csv(FrameOf(rows)) : rows \in SeqsUpTo(ImputeRows, MaxRows)}
                          \cup {Csv(FrameOf(<<r>>)) : r \in NameRows \cup AgeRows}
                          \cup BrokenSources
          /\ DefaultWidgets
       \/ /\ source = Csv(FrameOf(BigRows))
          /\ classes \in SUBSET class_options
          /\ sexes = sex_options
          /\ age_range \in AgeRanges
          /\ embark_ports = port_options
          /\ show_survivors \in BOOLEAN

NextRun == runs = 0 /\ Rerun

SpecRun == InitRun /\ [][NextRun]_vars

----------------------------------------------------------------------------
(* The claims.  They speak of rows, so a frame is read row by row here,    *)
(* and of the spec's operations, restated from the spec's words.           *)

Loaded == runs = 1 /\ failed_at # "load_data"
Filtered == Loaded /\ failed_at # "filters"
Complete == runs = 1 /\ exc = ""

Rows(frame) == [i \in 1..FrameLen(frame) |-> Row(frame, i)]

\* the spec's filter predicate on one row, under the widget values of the state
Matches(r) ==
    /\ r.Pclass # NaN /\ r.Pclass[1] \in classes
    /\ r.Sex # NaN /\ r.Sex[1] \in sexes
    /\ r.Age # NaN /\ Years(age_range[1]) <= r.Age[1] /\ r.Age[1] <= Years(age_range[2])
    /\ r.Embarked # NaN /\ r.Embarked[1] \in embark_ports

\* C1: the filtered table holds exactly the rows of the base table whose
\* class, sex and port are in the chosen sets and whose age is within the
\* inclusive range, in table order; it is empty when a chosen set is empty.
C1_FilterExact ==
    Filtered =>
        /\ Rows(filtered_df) = SelectSeq(Rows(df), Matches)
        /\ (classes = {} \/ sexes = {} \/ embark_ports = {}) => FrameLen(filtered_df) = 0

\* a two-row table of which the filter keeps one row, the age bounds met exactly
C1_Witness ==
    /\ Complete
    /\ FrameLen(df) = 2 /\ FrameLen(filtered_df) = 1
    /\ age_range = <<30, 30>>

\* C2: on an empty filtered table the run does not raise, the count shown is
\* 0, and the rate and the two means are shown as not-a-number ("nan"),
\* never as a number.
C2_EmptyNoData ==
    (Filtered /\ FrameLen(filtered_df) = 0 /\ "Survived" \in DOMAIN df) =>
        /\ exc = ""
        /\ metrics.shown
        /\ metrics.total_passengers = 0
        /\ metrics.survival_rate = <<"n", "a", "n", "%">>
        /\ metrics.avg_age = <<"n", "a", "n">>
        /\ metrics.avg_fare = <<"$", "n", "a", "n">>

\* every passenger filtered away from a table that has some
C2_Witness ==
    Complete /\ FrameLen(df) > 0 /\ FrameLen(filtered_df) = 0 /\ metrics.shown

HasAllColumns == source.kind = "csv" /\ RawCols \subseteq DOMAIN source.frame

\* C3: whatever cells of Age, Fare and Embarked the file lacks, all of them
\* included, load_data returns and no row of its table lacks one of the three.
C3_NoMissingAfterPreparation ==
    (runs = 1 /\ HasAllColumns) =>
        /\ Loaded
        /\ \A i \in 1..FrameLen(df) :
              df["Age"][i] # NaN /\ df["Fare"][i] # NaN /\ df["Embarked"][i] # NaN

Unusable ==
    \/ source.kind \in {"missing", "unreadable"}
    \/ ~(RawCols \subseteq DOMAIN source.frame)

\* C4: when the file is missing, unreadable or lacks a consumed column, the
\* run ends in load_data with an exception, no table is produced and nothing
\* is computed from one.
C4_LoadFailsOnUnusableSource ==
    (runs = 1 /\ Unusable) =>
        /\ failed_at = "load_data" /\ exc # ""
        /\ df = NoFrame /\ filtered_df = NoFrame /\ ~metrics.shown

\* C5: after any interactions the base table is, cell for cell, the table
\* load_data makes of the file.
C5_BaseTableUnchanged ==
    Loaded => df = load_data(source).value

\* at least three interactions after the first run
C5_Witness ==
    /\ Complete /\ FrameLen(df) > 0
    /\ classes # class_options /\ sexes # sex_options /\ show_survivors

\* C6: whatever was chosen before, the filtered view, the metrics, the grouped
\* aggregates and the table rows of the state are those of the base table
\* and the widget values of the state.
C6_NoStaleness ==
    Loaded =>
        LET fresh == Pass(load_data(source).value, Widgets)
        IN  /\ Filtered => Rows(filtered_df) = SelectSeq(Rows(load_data(source).value), Matches)
            /\ filtered_df = fresh.filtered_df
            /\ metrics = fresh.metrics
            /\ survival_data = fresh.survival_data
            /\ title_survival = fresh.title_survival
            /\ table = fresh.table

\* a narrowed age range and a narrowed class set with rows still shown
C6_Witness ==
    /\ Complete
    /\ age_range = <<30, 80>> /\ classes = {1, 2}
    /\ FrameLen(filtered_df) > 0 /\ FrameLen(filtered_df) < FrameLen(df)
    /\ FrameLen(table) > 0

\* the spec's bins on an age in quarter years
AgeGroupOf(a) ==
    CASE 0 < a /\ a <= Years(12)          -> Val("Child")
      [] Years(12) < a /\ a <= Years(18)  -> Val("Teen")
      [] Years(18) < a /\ a <= Years(35)  -> Val("Adult")
      [] Years(35) < a /\ a <= Years(50)  -> Val("Middle")
      [] Years(50) < a /\ a <= Years(80)  -> Val("Senior")
      [] OTHER                            -> NaN

\* C7: every age is binned (0,12] Child, (12,18] Teen, (18,35] Adult, (35,50]
\* Middle, (50,80] Senior, and has no group at 0 and outside (0,80].
C7_AgeGroups ==
    Loaded =>
        \A i \in 1..FrameLen(df) :
            df["Age"][i] # NaN => df["AgeGroup"][i] = AgeGroupOf(df["Age"][i][1])

\* a passenger of 12.5 years, binned Teen
C7_Witness ==
    /\ Loaded /\ FrameLen(df) = 1
    /\ df["Age"][1] = Val(Years(12) + 2) /\ df["AgeGroup"][1] = Val("Teen")

Survivor(r) == r.Survived = Val(1)
Anyone(r) == TRUE

\* C8: the table shows the first min(50, n) rows, in table order, of the
\* filtered rows (of the survivors among them when the box is ticked), in
\* the display columns.
C8_DisplayRows ==
    Complete =>
        LET shown == Rows(Project(filtered_df, display_cols))
            kept  == IF show_survivors THEN SelectSeq(shown, Survivor)
                     ELSE SelectSeq(shown, Anyone)
        IN  /\ FrameLen(table) = Min(head_rows, Len(kept))
            /\ \A k \in 1..FrameLen(table) : Row(table, k) = kept[k]

\* the big file with the box ticked: 50 rows, all survivors, the last of
\* them the 50th survivor of the file
C8_Witness ==
    /\ Complete /\ show_survivors
    /\ FrameLen(filtered_df) = BigSurvivors + BigOthers
    /\ FrameLen(table) = head_rows
    /\ \A k \in 1..FrameLen(table) : table["Survived"][k] = Val(1)
    /\ table["Name"][head_rows] = Val(Mr(head_rows + BigOthers))

\* a string without its leading whitespace
LStrip(s) ==
    LET ink == {j \in 1..Len(s) : s[j] \notin {" ", "\t"}}
    IN  IF ink = {} THEN <<>> ELSE SubSeq(s, First(ink), Len(s))

\* a string without its leading and trailing whitespace
Strip(s) ==
    LET ink == {j \in 1..Len(s) : s[j] \notin {" ", "\t"}}
    IN  IF ink = {} THEN <<>>
        ELSE SubSeq(s, First(ink), CHOOSE j \in ink : \A k \in ink : k <= j)

\* the periods of a name after position c
PeriodsAfter(name, c) == {j \in (c + 1)..Len(name) : name[j] = "."}

\* the text between position c and the next period after it
UpToPeriod(name, c) == SubSeq(name, c + 1, First(PeriodsAfter(name, c)) - 1)

\* the title as the spec words it: between the first comma and the next
\* period, stripped; the empty string when there is no such text
TitleBySpec(name) ==
    LET commas == {j \in 1..Len(name) : name[j] = ","}
    IN  IF commas = {} \/ PeriodsAfter(name, First(commas)) = {} THEN Val(<<>>)
        ELSE Val(Strip(UpToPeriod(name, First(commas))))

\* C9 as claimed: the extracted title is the stripped text between the first
\* comma and the next period, and the empty string when there is none.
C9_TitleAsClaimed ==
    Loaded =>
        \A i \in 1..FrameLen(df) :
            df["Name"][i] # NaN => extracted[i] = TitleBySpec(df["Name"][i][1])

\* the title as amended: at the first comma that has text before the next
\* period, that text without its leading whitespace (its last character if it
\* is all whitespace); missing when no comma has such text
TitleAmended(name) ==
    LET commas == {j \in 1..Len(name) :
                      /\ name[j] = ","
                      /\ PeriodsAfter(name, j) # {}
                      /\ UpToPeriod(name, j) # <<>>}
    IN  IF commas = {} THEN NaN
        ELSE LET text == UpToPeriod(name, First(commas))
             IN  IF LStrip(text) = <<>> THEN Val(<<text[Len(text)]>>)
                 ELSE Val(LStrip(text))

\* C9 amended: the extracted title is taken at the first comma followed by at
\* least one character and then a period: the text between them without its
\* leading whitespace, trailing whitespace kept; it is missing (NaN), not the
\* empty string, when no comma is followed by such text.
C9_TitleAmended ==
    Loaded =>
        \A i \in 1..FrameLen(df) :
            df["Name"][i] # NaN => extracted[i] = TitleAmended(df["Name"][i][1])

\* a name whose title has whitespace on both sides of it
C9_Witness ==
    /\ Loaded /\ FrameLen(df) = 1
    /\ df["Name"][1] = Val(<<",", " ", "M", " ", ".">>)
    /\ extracted = << Val(<<"M", " ">>) >>

\* C10: filtering the filtered table again with the same widget values
\* returns the filtered table.
C10_FilterIdempotent ==
    Filtered => applyFilters(filtered_df, Widgets) = filtered_df

\* a filter that kept some rows and dropped others
C10_Witness ==
    /\ Complete
    /\ FrameLen(filtered_df) > 1 /\ FrameLen(filtered_df) < FrameLen(df)

====
